---- MODULE Spec2Model ----
(***************************************************************************)
(* Model of app.py, the material-level hardness dashboard: the cached      *)
(* load of the sheet, the parsing of the tolerance range, the sidebar      *)
(* filters, the grouping with its minimum-coil gate, the strict QA verdict *)
(* of the main loop and the three views.                                   *)
(*                                                                         *)
(* Numbers.  A float is a tuple: <<>> is NaN, <<v>> is the finite value    *)
(* v / Scale (fixed point).  The decimals of the model have at most        *)
(* FracDigits fractional digits, so the fixed point is exact, and Python's *)
(* correctly rounded float() keeps the order and the equality of such      *)
(* short decimals.  Every comparison with NaN is false, as in IEEE 754.    *)
(***************************************************************************)
EXTENDS Integers, Sequences, FiniteSets, TLC

VARIABLES
    x,                \* split_std: the cell value it is applied to
    std,              \* split_std: the Series it returned, <<>> before the call
    remote,           \* the rows of the sheet behind DATA_URL
    cache,            \* st.cache_data: <<>> without an entry for DATA_URL, else <<table>>
    fetched,          \* whether load_data went to the network in this script run
    raw,              \* the table load_data returned to this script run
    view_mode,        \* the sidebar's view radio
    pc,               \* the position of the script run
    df,               \* the frame after parsing, coercion and the sidebar filters
    valid_conditions, \* the rows of count_df with N_Coils >= the minimum, in order
    pos,              \* the main loop's position in valid_conditions
    out               \* what the main loop has put on the page, in order

vars == <<x, std, remote, cache, fetched, raw, view_mode, pc, df,
          valid_conditions, pos, out>>

parseVars == <<x, std>>

appVars == <<remote, cache, fetched, raw, view_mode, pc, df, valid_conditions, pos, out>>

-----------------------------------------------------------------------------
(* Bounds *)

\* longest tolerance-range text
MaxLen == 5

\* fractional digits of the fixed point: a token of a text with a "~" has at
\* most MaxLen - 1 characters, one of them the "."
FracDigits == MaxLen - 2

RECURSIVE Pow10(_)
Pow10(n) == IF n = 0 THEN 1 ELSE 10 * Pow10(n - 1)

Scale == Pow10(FracDigits)

-----------------------------------------------------------------------------
(* Floats *)

NaN == <<>>

F(n) == <<n * Scale>>

IsNaN(f) == f = NaN

\* a < b and a > b of numpy / pandas: false when either side is NaN
Lt(a, b) == ~IsNaN(a) /\ ~IsNaN(b) /\ a[1] < b[1]

Gt(a, b) == ~IsNaN(a) /\ ~IsNaN(b) /\ a[1] > b[1]

-----------------------------------------------------------------------------
(* Cell values of the sheet.  <<"str", s>> is a text cell, s its sequence of  *)
(* characters; <<"num", v>> a numeric cell; <<"nan">> an empty cell.          *)

Str(s) == <<"str", s>>

EmptyCell == <<"nan">>

NumCell(n) == <<"num", n * Scale>>

IsStr(c) == c[1] = "str"

-----------------------------------------------------------------------------
(* float(): Python's conversion of a string, for the characters of the model *)
(* (digits, ".", sign, blank; any other character of the model's alphabets   *)
(* is one float() rejects: the alphabets hold no exponent, "_", inf or nan). *)
(* A fraction longer than FracDigits has no fixed-point value; no token of a *)
(* text of at most MaxLen characters has one.                                *)

DigitChars == <<"0", "1", "2", "3", "4", "5", "6", "7", "8", "9">>

Digits == {DigitChars[k] : k \in 1..10}

DigitVal(c) == (CHOOSE k \in 1..10 : DigitChars[k] = c) - 1

ValueError == <<"raise", "ValueError">>

Raised(r) == r = ValueError

RECURSIVE LStrip(_)
LStrip(s) == IF s # <<>> /\ Head(s) = " " THEN LStrip(Tail(s)) ELSE s

RECURSIVE RStrip(_)
RStrip(s) ==
    IF s # <<>> /\ s[Len(s)] = " " THEN RStrip(SubSeq(s, 1, Len(s) - 1)) ELSE s

Strip(s) == RStrip(LStrip(s))

\* the value of a run of digits, most significant first
RECURSIVE IntVal(_)
IntVal(s) ==
    IF s = <<>> THEN 0
    ELSE 10 * IntVal(SubSeq(s, 1, Len(s) - 1)) + DigitVal(s[Len(s)])

AllDigits(s) == \A k \in 1..Len(s) : s[k] \in Digits

\* Mutant of PyFloat: a parser that takes no sign.
PyFloatUnsigned(tok) ==
    LET t    == Strip(tok)
        dots == {k \in 1..Len(t) : t[k] = "."}
        dot  == IF dots = {} THEN Len(t) + 1 ELSE CHOOSE k \in dots : TRUE
        ip   == SubSeq(t, 1, dot - 1)
        fp   == SubSeq(t, dot + 1, Len(t))
    IN  IF /\ Cardinality(dots) <= 1
           /\ AllDigits(ip) /\ AllDigits(fp)
           /\ Len(ip) + Len(fp) >= 1
           /\ Len(fp) <= FracDigits
        THEN <<IntVal(ip) * Scale + IntVal(fp) * Pow10(FracDigits - Len(fp))>>
        ELSE ValueError

PyFloat(tok) ==
    LET t      == Strip(tok)
        signed == t # <<>> /\ t[1] \in {"-", "+"}
        neg    == t # <<>> /\ t[1] = "-"
        body   == IF signed THEN Tail(t) ELSE t
        dots   == {k \in 1..Len(body) : body[k] = "."}
        dot    == IF dots = {} THEN Len(body) + 1 ELSE CHOOSE k \in dots : TRUE
        ip     == SubSeq(body, 1, dot - 1)
        fp     == SubSeq(body, dot + 1, Len(body))
        mag    == IntVal(ip) * Scale + IntVal(fp) * Pow10(FracDigits - Len(fp))
    IN  IF /\ Cardinality(dots) <= 1
           /\ AllDigits(ip) /\ AllDigits(fp)
           /\ Len(ip) + Len(fp) >= 1
           /\ Len(fp) <= FracDigits
        THEN <<IF neg THEN -mag ELSE mag>>
        ELSE ValueError

-----------------------------------------------------------------------------
(* str.split("~") and split_std.                                             *)

Contains(s, c) == \E k \in 1..Len(s) : s[k] = c

RECURSIVE PySplit(_, _)
PySplit(s, c) ==
    IF ~Contains(s, c) THEN <<s>>
    ELSE LET k == CHOOSE i \in 1..Len(s) :
                      s[i] = c /\ \A j \in 1..(i - 1) : s[j] # c
         IN  <<SubSeq(s, 1, k - 1)>> \o PySplit(SubSeq(s, k + 1, Len(s)), c)

NaNPair == <<NaN, NaN>>

\* the tuple unpacking "lo, hi = ..." raises ValueError unless there are exactly
\* two parts; the bare except turns every exception into the NaN pair
split_std(c) ==
    IF IsStr(c) /\ Contains(c[2], "~")
    THEN LET parts == PySplit(c[2], "~")
         IN  IF Len(parts) # 2 THEN NaNPair
             ELSE LET lo == PyFloat(parts[1])
                      hi == PyFloat(parts[2])
                  IN  IF Raised(lo) \/ Raised(hi) THEN NaNPair ELSE <<lo, hi>>
    ELSE NaNPair

-----------------------------------------------------------------------------
(* The specification of split_std alone: any cell value, one call.           *)

Alphabet == {"5", "6", "~", ".", "-", " ", "a"}

RECURSIVE Strings(_)
Strings(n) ==
    IF n = 0 THEN {<<>>}
    ELSE LET shorter == Strings(n - 1)
         IN  shorter \cup {Append(s, c) : s \in {t \in shorter : Len(t) = n - 1},
                                          c \in Alphabet}

Cells == {Str(s) : s \in Strings(MaxLen)} \cup {EmptyCell, NumCell(5)}

ApplySplitStd == std = <<>> /\ std' = split_std(x) /\ UNCHANGED <<x, appVars>>

-----------------------------------------------------------------------------
(* The frame.  A row of the sheet, after the renaming of its columns, is a   *)
(* record of the columns the script reads.  A table is a set of rows: the    *)
(* script never reads a row's position in the sheet except through the order *)
(* sort_values leaves among rows of equal COIL_NO, which its default,        *)
(* unstable quicksort does not define (see FirstRows).  Key columns hold     *)
(* integer codes, ordered as the column's values are; COIL_NO is <<id>>, or  *)
(* NaN for an empty cell.                                                    *)

\* pd.to_numeric(errors="coerce")
to_numeric(c) ==
    IF c[1] = "num" THEN <<c[2]>>
    ELSE IF c[1] = "str"
         THEN LET r == PyFloat(c[2]) IN IF Raised(r) THEN NaN ELSE r
         ELSE NaN

\* lines 114-121: Std_Min / Std_Max replace Std_Range_Text, the hardness
\* columns become numeric
Parsed(r) ==
    LET s == split_std(r.Std_Range_Text)
    IN  [Product_Spec  |-> r.Product_Spec,
         Material      |-> r.Material,
         Metallic_Type |-> r.Metallic_Type,
         Top_Coatmass  |-> r.Top_Coatmass,
         Order_Gauge   |-> r.Order_Gauge,
         Rolling_Type  |-> r.Rolling_Type,
         Quality_Code  |-> r.Quality_Code,
         COIL_NO       |-> r.COIL_NO,
         Std_Min       |-> s[1],
         Std_Max       |-> s[2],
         Hardness_LAB  |-> to_numeric(r.Hardness_LAB),
         Hardness_LINE |-> to_numeric(r.Hardness_LINE)]

\* Series.nunique(): the distinct values, NaN dropped
nunique(S) == Cardinality(S \ {NaN})

\* the options of a sidebar radio: sorted(col.dropna().unique()); the user may
\* have picked any of them.  Without options the radio returns None, which
\* equals no cell.
RadioChoices(S) == IF S = {} THEN {0} ELSE S

\* lines 128-135: the three sidebar filters, each on the frame the one before left
Filtered(t, rolling, metal, qc) ==
    {r \in t : r.Rolling_Type = rolling /\ r.Metallic_Type = metal
               /\ r.Quality_Code = qc}

-----------------------------------------------------------------------------
(* Grouping, lines 150-158 *)

\* the source's threshold is 30 coils; the model scales it down so that the
\* tables stay enumerable, and states every property relative to it
MinCoils == 2

GroupKey(r) ==
    <<r.Product_Spec, r.Material, r.Metallic_Type, r.Top_Coatmass, r.Order_Gauge>>

\* the order of tuples, field by field
LexLess(a, b) ==
    \E k \in 1..Len(a) :
        /\ a[k] < b[k]
        /\ \A j \in 1..(k - 1) : a[j] = b[j]

\* groupby(GROUP_COLS) with its default sort=True: one row per key, keys ascending
RECURSIVE SortedKeys(_)
SortedKeys(K) ==
    IF K = {} THEN <<>>
    ELSE LET m == CHOOSE k \in K : \A o \in K : o = k \/ LexLess(k, o)
         IN  <<m>> \o SortedKeys(K \ {m})

CountRow(t, k) ==
    [Product_Spec  |-> k[1],
     Material      |-> k[2],
     Metallic_Type |-> k[3],
     Top_Coatmass  |-> k[4],
     Order_Gauge   |-> k[5],
     N_Coils       |-> nunique({r.COIL_NO : r \in {q \in t : GroupKey(q) = k}})]

count_df(t) ==
    LET keys == SortedKeys({GroupKey(r) : r \in t})
    IN  [n \in 1..Len(keys) |-> CountRow(t, keys[n])]

\* Mutant of Gate: the gate opened to every group.
GateOpen(n) == TRUE

Gate(n) == n >= MinCoils

\* a boolean mask keeps the rows it selects in their order
RECURSIVE SelectRows(_)
SelectRows(s) ==
    IF s = <<>> THEN <<>>
    ELSE (IF Gate(Head(s).N_Coils) THEN <<Head(s)>> ELSE <<>>)
         \o SelectRows(Tail(s))

\* Mutant of ValidConditions: count_df sorted by N_Coils, largest first, before the gate.
RECURSIVE ByCoilsDesc(_)
ByCoilsDesc(s) ==
    IF s = <<>> THEN <<>>
    ELSE LET top == CHOOSE k \in 1..Len(s) :
                        /\ \A j \in 1..Len(s) : s[j].N_Coils <= s[k].N_Coils
                        /\ \A j \in 1..(k - 1) : s[j].N_Coils < s[k].N_Coils
         IN  <<s[top]>>
             \o ByCoilsDesc([n \in 1..(Len(s) - 1) |-> IF n < top THEN s[n] ELSE s[n + 1]])

ValidConditionsByCoils(t) == SelectRows(ByCoilsDesc(count_df(t)))

ValidConditions(t) == SelectRows(count_df(t))

-----------------------------------------------------------------------------
(* One pass of the main loop, lines 167-195 *)

\* lines 174-179; Metallic_Type is not compared: the sidebar left one value
Sub(t, cond) ==
    {r \in t : /\ r.Product_Spec = cond.Product_Spec
               /\ r.Material = cond.Material
               /\ r.Top_Coatmass = cond.Top_Coatmass
               /\ r.Order_Gauge = cond.Order_Gauge}

\* the rows sort_values("COIL_NO") may leave at position 0: those of the least
\* coil number, NaN sorting last; which of several is not defined
FirstRows(sub) ==
    LET present == {r \in sub : ~IsNaN(r.COIL_NO)}
    IN  IF present = {} THEN sub
        ELSE {r \in present : \A o \in present : r.COIL_NO[1] <= o.COIL_NO[1]}

\* lines 184-185
NG(h, lo, hi) == Lt(h, lo) \/ Gt(h, hi)

\* lines 184-186: the row with its three flags
Flagged(r, lo, hi) ==
    [COIL_NO       |-> r.COIL_NO,
     Std_Min       |-> r.Std_Min,
     Std_Max       |-> r.Std_Max,
     Hardness_LAB  |-> r.Hardness_LAB,
     Hardness_LINE |-> r.Hardness_LINE,
     NG_LAB        |-> NG(r.Hardness_LAB, lo, hi),
     NG_LINE       |-> NG(r.Hardness_LINE, lo, hi),
     COIL_NG       |-> NG(r.Hardness_LAB, lo, hi) \/ NG(r.Hardness_LINE, lo, hi)]

\* line 188
n_out(sub) == nunique({r.COIL_NO : r \in {q \in sub : q.COIL_NG}})

\* line 189
qa_result(n) == IF n > 0 THEN "FAIL" ELSE "PASS"

-----------------------------------------------------------------------------
(* The views *)

Views == {"Data Table", "Trend (LAB / LINE)", "Distribution"}

\* Mutant of Plottable: a filter that keeps the zero readings.
PlottableWithZero(h) == ~IsNaN(h) /\ h[1] >= 0

\* sub[sub["Hardness_LAB"] > 0], lines 228-229 and 282-283
Plottable(h) == Gt(h, F(0))

lab_df(sub) == {r \in sub : Plottable(r.Hardness_LAB)}

line_df(sub) == {r \in sub : Plottable(r.Hardness_LINE)}

\* Series.min() and Series.max(): NaN of an empty series
SeriesMin(S) ==
    IF S \ {NaN} = {} THEN NaN
    ELSE CHOOSE m \in S \ {NaN} : \A o \in S \ {NaN} : m[1] <= o[1]

SeriesMax(S) ==
    IF S \ {NaN} = {} THEN NaN
    ELSE CHOOSE m \in S \ {NaN} : \A o \in S \ {NaN} : m[1] >= o[1]

\* Python's min() and max(): the first argument is kept until a later one
\* compares smaller (larger), so a NaN first argument is the result
RECURSIVE PyMinFrom(_, _)
PyMinFrom(m, s) ==
    IF s = <<>> THEN m
    ELSE PyMinFrom(IF Lt(Head(s), m) THEN Head(s) ELSE m, Tail(s))

PyMin(s) == PyMinFrom(Head(s), Tail(s))

RECURSIVE PyMaxFrom(_, _)
PyMaxFrom(m, s) ==
    IF s = <<>> THEN m
    ELSE PyMaxFrom(IF Gt(Head(s), m) THEN Head(s) ELSE m, Tail(s))

PyMax(s) == PyMaxFrom(Head(s), Tail(s))

\* np.floor and np.ceil
Floor(f) == IF IsNaN(f) THEN NaN ELSE <<(f[1] \div Scale) * Scale>>

Ceil(f) == IF IsNaN(f) THEN NaN ELSE <<-((-f[1]) \div Scale) * Scale>>

\* line 231
y_min(sub, lo) ==
    Floor(PyMin(<<lo, SeriesMin({r.Hardness_LAB : r \in lab_df(sub)}),
                      SeriesMin({r.Hardness_LINE : r \in line_df(sub)})>>))

\* line 232
y_max(sub, hi) ==
    Ceil(PyMax(<<hi, SeriesMax({r.Hardness_LAB : r \in lab_df(sub)}),
                     SeriesMax({r.Hardness_LINE : r \in line_df(sub)})>>))

\* Axes.set_ylim raises ValueError("Axis limits cannot be NaN or Inf")
SetYlimRaises(lo_, hi_) == IsNaN(lo_) \/ IsNaN(hi_)

\* std() > 0 of a series, lines 313 and 328: at least two readings, not all equal
StdPositive(values) == \E a \in values : \E b \in values : a # b

\* lines 169-172 and 188-195: the heading of a group
Heading(cond, sub) ==
    [spec      |-> cond.Product_Spec,
     mat       |-> cond.Material,
     coat      |-> cond.Top_Coatmass,
     gauge     |-> cond.Order_Gauge,
     n         |-> cond.N_Coils,
     n_out     |-> n_out(sub),
     qa_result |-> qa_result(n_out(sub))]

\* lines 201-219: st.dataframe of every row of sub
TableBody(sub, lo, hi) == [kind |-> "table", rows |-> sub]

\* lines 226-272, when set_ylim accepts the limits
TrendBody(sub, lo, hi) ==
    [kind |-> "trend", lab |-> lab_df(sub), line |-> line_df(sub),
     y_min |-> y_min(sub, lo), y_max |-> y_max(sub, hi)]

\* lines 282-377
DistBody(sub, lo, hi) ==
    [kind |-> "dist", lab |-> lab_df(sub), line |-> line_df(sub),
     normal_lab  |-> StdPositive({r.Hardness_LAB : r \in lab_df(sub)}),
     normal_line |-> StdPositive({r.Hardness_LINE : r \in line_df(sub)})]

\* lines 226-241 when set_ylim raises: the exception is all the page adds
RaisedBody(sub, lo, hi) == [kind |-> "exception"]

\* the if / elif chain on view_mode, lines 201, 224 and 279
ViewBody(mode, sub, lo, hi) ==
    CASE mode = "Data Table"         -> TableBody(sub, lo, hi)
      [] mode = "Trend (LAB / LINE)" -> TrendBody(sub, lo, hi)
      [] mode = "Distribution"       -> DistBody(sub, lo, hi)

\* whether line 241 raises for the group at pos and that first row
TrendRaises(t, cond, first) ==
    LET sub == {Flagged(r, first.Std_Min, first.Std_Max) : r \in Sub(t, cond)}
    IN  SetYlimRaises(y_min(sub, first.Std_Min), y_max(sub, first.Std_Max))

-----------------------------------------------------------------------------
(* The script run.  Streamlit runs the script from its top on every          *)
(* interaction; pc is where the run is: "load_data" (line 50), "filters"     *)
(* (lines 55-162), "main_loop" (line 167), and, once it has ended, "done",   *)
(* "stopped" (st.stop, line 162) or "exception" (an uncaught exception).     *)

NoEntry == <<>>

Ended == {"done", "stopped", "exception"}

\* lines 44-50, the cache holding the table of an earlier call
LoadDataHit ==
    /\ pc = "load_data"
    /\ cache # NoEntry
    /\ raw' = cache[1]
    /\ fetched' = FALSE
    /\ pc' = "filters"
    /\ UNCHANGED <<remote, cache, view_mode, df, valid_conditions, pos, out, parseVars>>

\* lines 44-50, the cache empty: requests.get, and the result is cached
LoadDataMiss ==
    /\ pc = "load_data"
    /\ cache = NoEntry
    /\ raw' = remote
    /\ cache' = <<remote>>
    /\ fetched' = TRUE
    /\ pc' = "filters"
    /\ UNCHANGED <<remote, view_mode, df, valid_conditions, pos, out, parseVars>>

\* the frames the user's choices can leave: each radio offers the values of
\* the frame the radio before it left
Frames(t) ==
    LET p == {Parsed(r) : r \in t}
    IN  UNION {UNION {{Filtered(p, ro, me, qc) :
                          qc \in RadioChoices({r.Quality_Code :
                                    r \in {q \in p : q.Rolling_Type = ro
                                                     /\ q.Metallic_Type = me}})} :
                      me \in RadioChoices({r.Metallic_Type :
                                    r \in {q \in p : q.Rolling_Type = ro}})} :
               ro \in RadioChoices({r.Rolling_Type : r \in p})}

\* lines 128-162 with no group of enough coils: the warning and st.stop
FiltersStop ==
    /\ pc = "filters"
    /\ \E f \in Frames(raw) :
        /\ ValidConditions(f) = <<>>
        /\ df' = f
        /\ valid_conditions' = <<>>
    /\ pos' = 0
    /\ pc' = "stopped"
    /\ UNCHANGED <<remote, cache, fetched, raw, view_mode, out, parseVars>>

\* lines 128-167 with at least one such group: the main loop starts
FiltersLoop ==
    /\ pc = "filters"
    /\ \E f \in Frames(raw) :
        /\ ValidConditions(f) # <<>>
        /\ df' = f
        /\ valid_conditions' = ValidConditions(f)
    /\ pos' = 1
    /\ pc' = "main_loop"
    /\ UNCHANGED <<remote, cache, fetched, raw, view_mode, out, parseVars>>

InLoop == pc = "main_loop" /\ pos <= Len(valid_conditions)

\* lines 169-195 for the group at pos and a row sort_values may have put
\* first: lo and hi of that row, sub with its flags, the heading; body is what
\* the view then adds, or the exception set_ylim raised
Pass(first, raises) ==
    LET cond == valid_conditions[pos]
        lo   == first.Std_Min
        hi   == first.Std_Max
        sub  == {Flagged(r, lo, hi) : r \in Sub(df, cond)}
    IN  [head |-> Heading(cond, sub), lo |-> lo, hi |-> hi, sub |-> sub,
         body |-> IF raises THEN RaisedBody(sub, lo, hi)
                  ELSE ViewBody(view_mode, sub, lo, hi)]

\* lines 167-219
RenderTable ==
    /\ InLoop
    /\ view_mode = "Data Table"
    /\ \E first \in FirstRows(Sub(df, valid_conditions[pos])) :
        out' = Append(out, Pass(first, FALSE))
    /\ pos' = pos + 1
    /\ UNCHANGED <<remote, cache, fetched, raw, view_mode, pc, df, valid_conditions,
                   parseVars>>

\* lines 167-195 and 224-272
RenderTrend ==
    /\ InLoop
    /\ view_mode = "Trend (LAB / LINE)"
    /\ \E first \in FirstRows(Sub(df, valid_conditions[pos])) :
        /\ ~TrendRaises(df, valid_conditions[pos], first)
        /\ out' = Append(out, Pass(first, FALSE))
    /\ pos' = pos + 1
    /\ UNCHANGED <<remote, cache, fetched, raw, view_mode, pc, df, valid_conditions,
                   parseVars>>

\* lines 167-195 and 224-241: set_ylim raises, the heading is on the page, the
\* exception ends the script run
RenderTrendRaises ==
    /\ InLoop
    /\ view_mode = "Trend (LAB / LINE)"
    /\ \E first \in FirstRows(Sub(df, valid_conditions[pos])) :
        /\ TrendRaises(df, valid_conditions[pos], first)
        /\ out' = Append(out, Pass(first, TRUE))
    /\ pc' = "exception"
    /\ UNCHANGED <<remote, cache, fetched, raw, view_mode, pos, df, valid_conditions,
                   parseVars>>

\* lines 167-195 and 279-377
RenderDistribution ==
    /\ InLoop
    /\ view_mode = "Distribution"
    /\ \E first \in FirstRows(Sub(df, valid_conditions[pos])) :
        out' = Append(out, Pass(first, FALSE))
    /\ pos' = pos + 1
    /\ UNCHANGED <<remote, cache, fetched, raw, view_mode, pc, df, valid_conditions,
                   parseVars>>

\* the for loop is exhausted and the script run ends
MainLoopEnd ==
    /\ pc = "main_loop"
    /\ pos > Len(valid_conditions)
    /\ pc' = "done"
    /\ UNCHANGED <<remote, cache, fetched, raw, view_mode, pos, df, valid_conditions,
                   out, parseVars>>

\* the user changes a filter or the view: Streamlit reruns the script
Interact ==
    /\ pc \in Ended
    /\ \E v \in Views : view_mode' = v
    /\ pc' = "load_data"
    /\ out' = <<>>
    /\ df' = {}
    /\ valid_conditions' = <<>>
    /\ pos' = 0
    /\ UNCHANGED <<remote, cache, fetched, raw, parseVars>>

\* the user presses "Refresh Data": Streamlit reruns the script with the
\* button set
PressRefresh ==
    /\ pc \in Ended
    /\ pc' = "button"
    /\ out' = <<>>
    /\ df' = {}
    /\ valid_conditions' = <<>>
    /\ pos' = 0
    /\ UNCHANGED <<remote, cache, fetched, raw, view_mode, parseVars>>

\* Mutant of RefreshData: the rerun without the clearing of the cache.
RefreshDataNoClear ==
    /\ pc = "button"
    /\ pc' = "load_data"
    /\ UNCHANGED <<remote, cache, fetched, raw, view_mode, df, valid_conditions, pos,
                   out, parseVars>>

\* lines 35-37: the cache is cleared and st.rerun() starts the script again,
\* the button no longer set
RefreshData ==
    /\ pc = "button"
    /\ cache' = NoEntry
    /\ pc' = "load_data"
    /\ UNCHANGED <<remote, fetched, raw, view_mode, df, valid_conditions, pos, out,
                   parseVars>>

-----------------------------------------------------------------------------
(* Inputs *)

\* most rows of a sheet of one group
MaxRows == 3

\* most rows of a sheet of several groups
MaxGroupRows == 5

\* most rows of a sheet that is edited between script runs
MaxEditRows == 2

RECURSIVE Tables(_, _)
Tables(U, n) ==
    IF n = 0 THEN {{}}
    ELSE LET smaller == Tables(U, n - 1)
         IN  smaller \cup {t \cup {r} : t \in {s \in smaller : Cardinality(s) = n - 1},
                                       r \in U}

Txt(a, b, c) == Str(<<a, b, c>>)

BaseRow ==
    [Product_Spec   |-> 1, Material |-> 1, Metallic_Type |-> 1, Top_Coatmass |-> 1,
     Order_Gauge    |-> 1, Rolling_Type |-> 1, Quality_Code |-> 1,
     COIL_NO        |-> <<1>>,
     Std_Range_Text |-> Txt("4", "~", "6"),
     Hardness_LAB   |-> NumCell(4),
     Hardness_LINE  |-> NumCell(4)]

\* rows of one group: the coil, the range text and the two readings vary
Readings ==
    {<<NumCell(4), NumCell(4)>>, <<NumCell(7), NumCell(0)>>,
     <<EmptyCell, NumCell(7)>>, <<NumCell(0), Str(<<"a">>)>>}

RangeTexts == {Txt("4", "~", "6"), Txt("5", "~", "7"), Txt("b", "a", "d")}

CoilNos(n) == {<<c>> : c \in 1..n} \cup {NaN}

MeasuredRows ==
    {[BaseRow EXCEPT !.COIL_NO = c, !.Std_Range_Text = t,
                     !.Hardness_LAB = h[1], !.Hardness_LINE = h[2]] :
        c \in CoilNos(MinCoils), t \in RangeTexts, h \in Readings}

\* rows of several groups: the key, the coil and the range text vary
GroupRows ==
    {[BaseRow EXCEPT !.Product_Spec = k[1], !.Order_Gauge = k[2],
                     !.COIL_NO = c, !.Std_Range_Text = t] :
        k \in {<<1, 2>>, <<2, 1>>},
        c \in CoilNos(MinCoils + 1) \ {NaN},
        t \in {Txt("4", "~", "6"), Txt("b", "a", "d")}}

\* rows of one group with a good or a bad range text: the coil and the two
\* readings vary
SeriesRows ==
    {[BaseRow EXCEPT !.COIL_NO = c, !.Std_Range_Text = t,
                     !.Hardness_LAB = h[1], !.Hardness_LINE = h[2]] :
        c \in CoilNos(MinCoils) \ {NaN},
        t \in {Txt("4", "~", "6"), Txt("b", "a", "d")},
        h \in Readings}

\* rows of a sheet that is edited: the coating and the coil vary, the rows of
\* the second coating carry a bad range text
EditRows ==
    {[BaseRow EXCEPT !.Metallic_Type = m, !.COIL_NO = c,
                     !.Std_Range_Text = IF m = 1 THEN Txt("4", "~", "6")
                                        ELSE Txt("b", "a", "d")] :
        m \in {1, 2},
        c \in CoilNos(MinCoils) \ {NaN}}

\* somebody adds a row to the sheet, or deletes one
SheetEdited ==
    /\ \E r \in EditRows :
        \/ r \notin remote /\ Cardinality(remote) < MaxEditRows
                           /\ remote' = remote \cup {r}
        \/ r \in remote /\ remote' = remote \ {r}
    /\ UNCHANGED <<cache, fetched, raw, view_mode, pc, df, valid_conditions, pos, out,
                   parseVars>>

InitApp ==
    /\ cache = NoEntry
    /\ fetched = FALSE
    /\ raw = {}
    /\ view_mode = "Data Table"
    /\ pc = "load_data"
    /\ df = {}
    /\ valid_conditions = <<>>
    /\ pos = 0
    /\ out = <<>>
    /\ x = EmptyCell
    /\ std = <<>>

Init == remote \in Tables(MeasuredRows, MaxRows) /\ InitApp

InitSeries == remote \in Tables(SeriesRows, MaxRows) /\ InitApp

InitGroups == remote \in Tables(GroupRows, MaxGroupRows) /\ InitApp

InitCache == remote \in Tables(EditRows, MaxEditRows) /\ InitApp

InitParse ==
    /\ x \in Cells
    /\ std = <<>>
    /\ remote = {}
    /\ cache = NoEntry
    /\ fetched = FALSE
    /\ raw = {}
    /\ view_mode = "Data Table"
    /\ pc = "load_data"
    /\ df = {}
    /\ valid_conditions = <<>>
    /\ pos = 0
    /\ out = <<>>

Next ==
    \/ LoadDataHit
    \/ LoadDataMiss
    \/ FiltersStop
    \/ FiltersLoop
    \/ RenderTable
    \/ RenderTrend
    \/ RenderTrendRaises
    \/ RenderDistribution
    \/ MainLoopEnd
    \/ Interact
    \/ PressRefresh
    \/ RefreshData

NextCache == Next \/ SheetEdited

NextParse == ApplySplitStd

Spec == Init /\ [][Next]_vars

SpecSeries == InitSeries /\ [][Next]_vars

SpecGroups == InitGroups /\ [][Next]_vars

SpecCache == InitCache /\ [][NextCache]_vars

SpecParse == InitParse /\ [][NextParse]_vars

-----------------------------------------------------------------------------
(* What the claims speak of *)

Entries == {out[k] : k \in 1..Len(out)}

\* the records of the frame that belong to the group an entry of the page is about
GroupRecords(e) ==
    {r \in df : /\ r.Product_Spec = e.head.spec
                /\ r.Material = e.head.mat
                /\ r.Top_Coatmass = e.head.coat
                /\ r.Order_Gauge = e.head.gauge}

EntryKey(e) == <<e.head.spec, e.head.mat, e.head.coat, e.head.gauge>>

\* the groups of the frame, by the key columns the sidebar leaves free
FrameKeys ==
    {<<r.Product_Spec, r.Material, r.Top_Coatmass, r.Order_Gauge>> : r \in df}

\* the number of distinct coil identifiers of a group of the frame
DistinctCoils(k) ==
    Cardinality({r.COIL_NO : r \in {q \in df :
        <<q.Product_Spec, q.Material, q.Top_Coatmass, q.Order_Gauge>> = k}} \ {NaN})

ValidRange(r) == ~IsNaN(r.Std_Min) /\ ~IsNaN(r.Std_Max)

\* a reading that was not taken: an empty cell or the zero sentinel
NotTaken(h) == IsNaN(h) \/ h = F(0)

-----------------------------------------------------------------------------
(* C1 *)

\* C1: for every group the main loop has processed, qa_result is FAIL if and
\* only if at least one record of the group has COIL_NG true, and PASS otherwise.
C1_StrictVerdict ==
    \A e \in Entries :
        /\ e.head.qa_result = "FAIL" <=> \E r \in e.sub : r.COIL_NG
        /\ e.head.qa_result = "PASS" <=> ~\E r \in e.sub : r.COIL_NG

-----------------------------------------------------------------------------
(* C2 *)

\* C2: a group whose records all carry an invalid tolerance range (Std_Min or
\* Std_Max is NaN) never receives a PASS or FAIL qa_result.
C2_InvalidRangeNeverScored ==
    \A e \in Entries :
        (\A r \in e.sub : ~ValidRange(r))
            => e.head.qa_result \notin {"PASS", "FAIL"}

-----------------------------------------------------------------------------
(* C3 *)

\* C3: a hardness channel whose value is absent (NaN) or the zero sentinel never
\* sets that channel's NG flag.
C3_AbsenceNeverFails ==
    \A e \in Entries : \A r \in e.sub :
        /\ NotTaken(r.Hardness_LAB) => ~r.NG_LAB
        /\ NotTaken(r.Hardness_LINE) => ~r.NG_LINE

-----------------------------------------------------------------------------
(* C4 *)

\* C4: for every record with a valid tolerance range and a present hardness
\* value, NG_LAB is true exactly when Hardness_LAB is below Std_Min or above
\* Std_Max of that record's own range, and NG_LINE likewise.
C4_OwnRange ==
    \A e \in Entries : \A r \in e.sub :
        ValidRange(r) =>
            /\ ~IsNaN(r.Hardness_LAB) =>
                   (r.NG_LAB <=> (r.Hardness_LAB[1] < r.Std_Min[1]
                                  \/ r.Hardness_LAB[1] > r.Std_Max[1]))
            /\ ~IsNaN(r.Hardness_LINE) =>
                   (r.NG_LINE <=> (r.Hardness_LINE[1] < r.Std_Min[1]
                                   \/ r.Hardness_LINE[1] > r.Std_Max[1]))

-----------------------------------------------------------------------------
(* C5: the texts split_std accepts, stated without running it *)

\* the value of a numeral of digits and at most one ".", digit by digit
RECURSIVE PlaceSum(_, _, _)
PlaceSum(t, dot, k) ==
    IF k > Len(t) THEN 0
    ELSE PlaceSum(t, dot, k + 1)
         + (IF k = dot THEN 0
            ELSE DigitVal(t[k]) * Pow10(IF k < dot THEN FracDigits + dot - 1 - k
                                        ELSE FracDigits - (k - dot)))

DotOf(t) ==
    IF \E k \in 1..Len(t) : t[k] = "." THEN CHOOSE k \in 1..Len(t) : t[k] = "."
    ELSE Len(t) + 1

\* digits, at most one "." anywhere among them, at least one digit
IsPointNumeral(t) ==
    /\ \A k \in 1..Len(t) : t[k] \in Digits \cup {"."}
    /\ Cardinality({k \in 1..Len(t) : t[k] = "."}) <= 1
    /\ \E k \in 1..Len(t) : t[k] \in Digits

\* the cores of a token: what is left of it between leading and trailing blanks
Cores(t) ==
    {SubSeq(t, a, b) :
        a \in {c \in 1..Len(t) : \A j \in 1..(c - 1) : t[j] = " "},
        b \in {c \in 1..Len(t) : \A j \in (c + 1)..Len(t) : t[j] = " "}}

\* the values of a token as an unsigned decimal between blanks (none or one),
\* in the widest reading of "decimal": "5", "5.5", and also "5." and ".5"
UnsignedValues(t) ==
    {<<PlaceSum(c, DotOf(c), 1)>> : c \in {d \in Cores(t) : IsPointNumeral(d)}}

\* the values of a token as float() reads it: blanks, an optional sign, a numeral
FloatValues(t) ==
    {IF c[1] = "-" THEN <<-PlaceSum(Tail(c), DotOf(Tail(c)), 1)>>
     ELSE IF c[1] = "+" THEN <<PlaceSum(Tail(c), DotOf(Tail(c)), 1)>>
     ELSE <<PlaceSum(c, DotOf(c), 1)>> :
        c \in {d \in Cores(t) :
                 /\ d # <<>>
                 /\ IsPointNumeral(IF d[1] \in {"-", "+"} THEN Tail(d) ELSE d)}}

\* the ranges of a text "left~right" whose two sides have values
UnsignedRanges(s) ==
    UNION {UnsignedValues(SubSeq(s, 1, k - 1))
               \X UnsignedValues(SubSeq(s, k + 1, Len(s))) :
              k \in {j \in 1..Len(s) : s[j] = "~"}}

\* the same with the sides read as float() reads them
FloatRanges(s) ==
    UNION {FloatValues(SubSeq(s, 1, k - 1))
               \X FloatValues(SubSeq(s, k + 1, Len(s))) :
              k \in {j \in 1..Len(s) : s[j] = "~"}}

\* C5 as claimed: split_std yields finite (Std_Min, Std_Max) = (a, b) exactly for
\* a string "<number>~<number>" of unsigned decimals between optional blanks,
\* and the NaN pair for every other input.
C5_UnsignedOnly ==
    std # <<>> =>
        IF IsStr(x) /\ UnsignedRanges(x[2]) # {}
        THEN UnsignedRanges(x[2]) = {std}
        ELSE std = NaNPair

\* C5 as amended: split_std yields (float(a), float(b)) exactly for a string with
\* one "~" whose two sides float() accepts - blanks, an optional sign, digits
\* with at most one "." and at least one digit - and the NaN pair otherwise.
C5_FloatTokens ==
    std # <<>> =>
        IF IsStr(x) /\ FloatRanges(x[2]) # {}
        THEN FloatRanges(x[2]) = {std}
        ELSE std = NaNPair

\* a signed text has been split into a finite range
C5_Witness == x = Str(<<"-", "5", "~", "6">>) /\ std = <<F(-5), F(6)>>

-----------------------------------------------------------------------------
(* C6 *)

-----------------------------------------------------------------------------
(* C7 *)

\* a record of the frame and a row of the page that show the same coil and readings
SameRow(r, q) ==
    /\ r.COIL_NO = q.COIL_NO
    /\ r.Std_Min = q.Std_Min
    /\ r.Std_Max = q.Std_Max
    /\ r.Hardness_LAB = q.Hardness_LAB
    /\ r.Hardness_LINE = q.Hardness_LINE

\* C7: in the Trend and Distribution views the LAB (LINE) series holds exactly
\* the group's records whose Hardness_LAB (Hardness_LINE) is present and above
\* zero; the Data Table view shows every record of the group.
C7_SentinelFiltering ==
    \A e \in Entries :
        /\ e.body.kind \in {"trend", "dist"} =>
            /\ \A r \in GroupRecords(e) :
                   (~IsNaN(r.Hardness_LAB) /\ r.Hardness_LAB[1] > 0)
                       <=> \E q \in e.body.lab : SameRow(r, q)
            /\ \A r \in GroupRecords(e) :
                   (~IsNaN(r.Hardness_LINE) /\ r.Hardness_LINE[1] > 0)
                       <=> \E q \in e.body.line : SameRow(r, q)
            /\ \A q \in e.body.lab \cup e.body.line :
                   \E r \in GroupRecords(e) : SameRow(r, q)
        /\ e.body.kind = "table" =>
            /\ \A r \in GroupRecords(e) : \E q \in e.body.rows : SameRow(r, q)
            /\ \A q \in e.body.rows : \E r \in GroupRecords(e) : SameRow(r, q)

\* a Distribution pass whose LAB series leaves out a zero reading and an empty
\* one and keeps another
C7_Witness ==
    \E e \in Entries :
        /\ e.body.kind = "dist"
        /\ e.body.lab # {}
        /\ \E r \in e.sub : r.Hardness_LAB = F(0) /\ r \notin e.body.lab
        /\ \E r \in e.sub : IsNaN(r.Hardness_LAB) /\ r \notin e.body.lab

-----------------------------------------------------------------------------
(* C8 *)

\* C8: when a script run has ended in or after its main loop, every group of
\* at least MinCoils coils whose records carry a valid range is on the page with
\* its view, whatever the groups before it were.
C8_EveryGroupRendered ==
    pc \in {"done", "exception"} =>
        \A j \in 1..Len(valid_conditions) :
            (\A r \in Sub(df, valid_conditions[j]) : ValidRange(r)) =>
                \E e \in Entries :
                    /\ GroupRecords(e) = Sub(df, valid_conditions[j])
                    /\ e.body.kind # "exception"

-----------------------------------------------------------------------------
(* C9 *)

\* C9 as claimed: the groups are on the page in descending order of N_Coils,
\* ties in the order of the key tuple.
C9_DescendingByCoils ==
    \A a \in 1..Len(out) : \A b \in 1..Len(out) :
        a < b =>
            \/ out[a].head.n > out[b].head.n
            \/ /\ out[a].head.n = out[b].head.n
               /\ LexLess(EntryKey(out[a]), EntryKey(out[b]))

\* C9 as amended: the groups are on the page in ascending order of the key
\* tuple, whatever their N_Coils: the k-th group on the page is the k-th
\* smallest key among the groups of at least MinCoils coils.
C9_AscendingByKey ==
    \A a \in 1..Len(out) :
        Cardinality({k \in FrameKeys :
                        DistinctCoils(k) >= MinCoils /\ LexLess(k, EntryKey(out[a]))})
            = a - 1

\* two groups are on the page, the one of fewer coils first
C9_Witness ==
    /\ Len(out) = 2
    /\ out[1].head.n < out[2].head.n
    /\ out[2].body.kind # "exception"

-----------------------------------------------------------------------------
(* C10 *)

\* C10: load_data goes to the network only when the cache holds no entry, and
\* then caches what it fetched; with an entry it returns the entry; pressing
\* Refresh clears the cache before the rerun loads; nothing else changes the
\* cache or the table a script run works on.
C10_CacheProtocol ==
    [][/\ (pc = "load_data" /\ pc' # pc) =>
              IF cache = NoEntry
              THEN fetched' /\ raw' = remote /\ cache' = <<remote>>
              ELSE ~fetched' /\ raw' = cache[1] /\ cache' = cache
       /\ (pc = "button" /\ pc' # pc) => (cache' = NoEntry /\ pc' = "load_data")
       /\ (pc \notin {"load_data", "button"} \/ pc' = pc) =>
              (cache' = cache /\ raw' = raw /\ fetched' = fetched)
       /\ (pc \in Ended /\ pc' # pc) => pc' \in {"load_data", "button"}]_vars

\* a script run in another view than the first has fetched the sheet afresh,
\* which only a Refresh brings about, and has rendered the fetched table
C10_Witness ==
    /\ pc = "done"
    /\ fetched
    /\ view_mode # "Data Table"
    /\ raw = remote
    /\ cache = <<raw>>
    /\ out # <<>>

====
